---- MODULE Spec2Model ----
(***************************************************************************)
(* mini_modelvault: the request routing and streaming-dispatch layer.      *)
(*   router/router.py               ModelRouter (_classify, route,         *)
(*                                  stream_route, stream_with_type)        *)
(*   services/inference_service.py  InferenceService (run, run_stream)     *)
(*   utils/image_handler.py         handle_image                           *)
(*   services/cli.py                main (one-shot run)                    *)
(*   services/interactive_session.py  run_interactive                      *)
(*   services/http_server.py        generate (POST /generate)              *)
(* Strings that the code inspects character by character (the classifier   *)
(* backend's response) are sequences of one-character strings.             *)
(***************************************************************************)
EXTENDS Integers, Sequences, FiniteSets, TLC

\* ------------------------------------------------------------------ bounds
\* A classifier response is a concatenation of at most MaxTokens tokens.
MaxTokens == 3
\* A backend emits at most MaxFrags fragments before it signals completion.
MaxFrags == 2
\* How often a consumer asks a finished sequence for one more element.
MaxExtraPulls == 1
\* A text given to handle_image is a concatenation of at most MaxWords words.
MaxWords == 4
\* The inputs a user enters in one interactive session.
MaxTurns == 2

\* ------------------------------------------------------------------ text
general == <<"g", "e", "n", "e", "r", "a", "l">>
coding == <<"c", "o", "d", "i", "n", "g">>
vision == <<"v", "i", "s", "i", "o", "n">>

\* The alternation of the pattern, in the order the pattern lists it.
Labels == <<general, coding, vision>>

\* The pieces the modelled responses are built from: the three labels, a
\* capitalised label, a word prefix, a blank, an underscore (a word
\* character that is no letter), punctuation and an upper-case letter.
Tokens ==
    { general, coding, vision,
      <<"C", "o", "d", "i", "n", "g">>,
      <<"u", "n">>, <<" ">>, <<"_">>, <<".">>, <<"X">> }

RECURSIVE TokenStrings(_)
TokenStrings(n) ==
    IF n = 0 THEN { <<>> }
    ELSE LET shorter == TokenStrings(n - 1)
         IN  shorter \cup { s \o t : s \in shorter, t \in Tokens }

Responses == TokenStrings(MaxTokens)

\* str.lower() on one character.
LowerChar(ch) ==
    CASE ch = "C" -> "c"
      [] ch = "X" -> "x"
      [] OTHER -> ch

\* str.lower()
Lower(s) == [i \in 1..Len(s) |-> LowerChar(s[i])]

IsSpace(ch) == ch = " "

\* str.strip(): drop the leading and the trailing white space.
RECURSIVE LStrip(_)
LStrip(s) == IF s # <<>> /\ IsSpace(Head(s)) THEN LStrip(Tail(s)) ELSE s

RECURSIVE RStrip(_)
RStrip(s) ==
    IF s # <<>> /\ IsSpace(s[Len(s)]) THEN RStrip(SubSeq(s, 1, Len(s) - 1)) ELSE s

Strip(s) == RStrip(LStrip(s))

\* \w of the re module: letters, digits and the underscore.
IsWordChar(ch) == ch \notin {" ", "."}

\* \b with no boundary test at all (plain substring search).
NoWordBoundary(s, i) == TRUE

\* \b between s[i] and s[i+1] (i = 0: the start, i = Len(s): the end):
\* exactly one side is a word character.
WordBoundary(s, i) ==
    LET before == i >= 1 /\ IsWordChar(s[i])
        after == i < Len(s) /\ IsWordChar(s[i + 1])
    IN  before # after

\* The pattern \b(general|coding|vision)\b tried at position i: the index in
\* Labels of the first alternative that matches there, 0 when none does.
MatchAt(s, i) ==
    LET fits(k) ==
            /\ i + Len(Labels[k]) - 1 <= Len(s)
            /\ SubSeq(s, i, i + Len(Labels[k]) - 1) = Labels[k]
            /\ WordBoundary(s, i - 1)
            /\ WordBoundary(s, i + Len(Labels[k]) - 1)
    IN  IF fits(1) THEN 1 ELSE IF fits(2) THEN 2 ELSE IF fits(3) THEN 3 ELSE 0

\* re.search: the match at the leftmost position that has one; <<>> stands
\* for None (no label is the empty string).
RECURSIVE SearchFrom(_, _)
SearchFrom(s, i) ==
    IF i > Len(s) THEN <<>>
    ELSE IF MatchAt(s, i) # 0 THEN Labels[MatchAt(s, i)]
    ELSE SearchFrom(s, i + 1)

ReSearch(s) == SearchFrom(s, 1)

\* ModelRouter._classify, from the response of the router chain on.
Classify(result) ==
    LET match == ReSearch(Lower(result))
    IN  IF match # <<>> THEN match ELSE Lower(Strip(result))

\* ------------------------------------------------------------------ values
\* A value handed over by a backend or by the router: a plain string
\* (kind "str") or a message object that carries its text in .content
\* (kind "msg"); NoValue stands for "nothing returned".
Str(s) == [kind |-> "str", content |-> s]
Msg(s) == [kind |-> "msg", content |-> s]
NoValue == [kind |-> "none", content |-> <<>>]

\* hasattr(chunk, "content")
HasContent(v) == v.kind = "msg"

\* The text of the i-th fragment a backend emits.
FragText(i) ==
    IF i = 1 THEN <<"H", "e", "l">>
    ELSE IF i = 2 THEN <<"l", "o">>
    ELSE <<"!">>

RECURSIVE JoinText(_)
JoinText(vs) == IF vs = <<>> THEN <<>> ELSE Head(vs).content \o JoinText(Tail(vs))

\* ------------------------------------------------------------------ inputs
Calls == {1, 2}
Texts == {"", "q"}
\* image_path: None, the empty string, a readable file, a missing file.
NoImage == "<None>"
ImagePaths == {NoImage, "", "cat.png", "missing.png"}
\* Every file can be opened and read.
AlwaysReadable(p) == TRUE

\* open(image_path, "rb") succeeds: the file exists and may be read
\* (cat.png, and what was stored under assets/).
Readable(p) == p \in {"cat.png", "assets/cat.png", "assets/dog.png"}

\* The configuration mapping that names the default models.
Defaults ==
    [MODEL_GENERAL |-> "llama3.2:3b", MODEL_CODING |-> "qwen2.5-coder:3b",
     MODEL_VISION |-> "llava-phi3"]

\* cfg.get(key, DEFAULTS[key])
CfgGet(cfg, key) == IF key \in DOMAIN cfg THEN cfg[key] ELSE Defaults[key]

\* An attribute of the Router that has not been assigned.
Unbound == "<unbound>"

\* No ModelRouter has been constructed.
NotConstructed ==
    [status |-> "new", general |-> Unbound, coding |-> Unbound,
     vision |-> Unbound, router_model |-> Unbound]

\* ModelRouter._load_models: how it ends and the model bound to each field
\* of the Router. The three roles are bound with cfg.get; the classifier's
\* model is then read with cfg["MODEL_GENERAL"], which raises KeyError when
\* the key is absent: __init__ raises and no Router exists.
LoadModels(cfg) ==
    [status |-> IF "MODEL_GENERAL" \in DOMAIN cfg THEN "constructed"
                ELSE "KeyError",
     general |-> CfgGet(cfg, "MODEL_GENERAL"),
     coding |-> CfgGet(cfg, "MODEL_CODING"),
     vision |-> CfgGet(cfg, "MODEL_VISION"),
     router_model |-> IF "MODEL_GENERAL" \in DOMAIN cfg
                      THEN cfg["MODEL_GENERAL"] ELSE Unbound]

\* A request re-binds the classifier to the coding model.
RouterRebound(r) == [r EXCEPT !.router_model = r.coding]

\* The fields of the Router after a call of route, stream_route or
\* _classify: the methods read self.general, self.coding, self.vision and
\* self.router_chain and assign to no attribute of self.
RouterAfter(r) == r

\* The responses the deterministic classifier backend of a run may give.
ClassifierResponses ==
    { coding,
      <<"C", "o", "d", "i", "n", "g">> \o <<".">>,
      general,
      vision,
      <<"u", "n">> \o coding,
      <<>> }

VARIABLES
    response,       \* the classifier backend's response (a string)
    classified,     \* _classify applied to response on its own
    backendKind,    \* "text": invoke/stream give strings; "message": objects
    nfrags,         \* how many fragments the backend emits
    text,           \* the text argument of the calls of this run
    image_path,     \* the image_path argument of the calls of this run
    api,            \* per call: the entry point that was called
    pc,             \* per call: where the call or its generator stands
    label,          \* per call: model_type returned by the router
    cls,            \* per call: what _classify did
    payload,        \* per call: the response returned by route
    ret,            \* per call: the value returned by run
    received,       \* per call: the fragments handed to the consumer
    chunks,         \* per call: run_stream's local list of chunks
    pos,            \* per call: chunks read from the backend stream
    backendStream,  \* per call: "none", "created", "open", "closed"
    invoked,        \* per call: the backend calls made, in order
    errlog,         \* per call: records logged at error level, in order
    summaries,      \* per call: the summary records logged by the service
    raised,         \* per call: the error the call ended with
    extraPulls,     \* per call: pulls made after the sequence ended
    router,         \* the fields of the Router: the model bound to each
    assets,         \* the asset store: file name -> bytes
    http,           \* per POST /generate request: where its handler stands
    handled,        \* a call of handle_image: its arguments and its result
    session,        \* the command-line process: one-shot run or session
    config,         \* the configuration mapping the Router is built from
    stdin           \* the terminal the session prompts on

env == <<response, classified, backendKind, nfrags, text, image_path>>
request == <<api>>
routing == <<label, cls, payload, invoked>>
streaming == <<received, chunks, pos, backendStream, extraPulls>>
\* The state of the HTTP and command-line layers.
outside == <<assets, http, handled, session, config, stdin>>
\* The state of the calls made on the Router and the Inference Service.
calls ==
    <<api, pc, label, cls, payload, ret, received, chunks, pos, backendStream,
      invoked, errlog, summaries, raised, extraPulls>>
vars ==
    <<response, classified, backendKind, nfrags, text, image_path, api, pc,
      label, cls, payload, ret, received, chunks, pos, backendStream,
      invoked, errlog, summaries, raised, extraPulls, router, assets, http,
      handled, session, config, stdin>>

NotClassified == [called |-> FALSE, ok |-> FALSE, label |-> <<>>]

\* ------------------------------------------------------------------ backends
\* The whole output of the backend of this run, fragment by fragment.
BackendFragments == [i \in 1..nfrags |-> Str(FragText(i))]

\* backend.invoke(messages): the complete response, a string from a
\* text backend and a message object from a chat-model backend.
InvokeResult ==
    IF backendKind = "text" THEN Str(JoinText(BackendFragments))
    ELSE Msg(JoinText(BackendFragments))

\* The i-th element of backend.stream(messages).
BackendChunk(i) ==
    IF backendKind = "text" THEN Str(FragText(i)) ELSE Msg(FragText(i))

\* data:image/png;base64,<payload> of the file at path p
DataUrl(p) == <<"data:image/png;base64", p>>

\* The message of a call that carries an image has no text part.
BackendCallImageOnly(backend, method, t, image) ==
    [backend |-> backend, method |-> method,
     text |-> IF image = <<>> THEN t ELSE "", image |-> image]

BackendCall(backend, method, t, image) ==
    [backend |-> backend, method |-> method, text |-> t, image |-> image]

LogError(by, where, error) == [by |-> by, where |-> where, error |-> error]

\* ------------------------------------------------------------------ router
\* An image is attached only when the file can be read.
TruthyAndReadable(p) == p \notin {NoImage, ""} /\ Readable(p)

\* `if image_path:` -- None and the empty string are false.
Truthy(p) == p \notin {NoImage, ""}

\* The classifier's label is used as the model type unchanged.
SelectModelAsClassified(lab) ==
    IF lab = coding THEN "coding" ELSE IF lab = vision THEN "vision" ELSE "general"

\* Everything but "general" goes to the coding model.
SelectModelInverted(lab) == IF lab = general THEN "general" ELSE "coding"

\* `if self._classify(text) == "coding": ... else: ...`
SelectModel(lab) == IF lab = coding THEN "coding" ELSE "general"

Outcome(status, lab, c, p, inv, errs, error) ==
    [status |-> status, label |-> lab, cls |-> c, payload |-> p,
     invoked |-> inv, errlog |-> errs, error |-> error]

\* A classifier failure is answered with the default label: the general
\* backend is called and its response returned.
ClassifierFailedDefault(t, where) ==
    Outcome("returned", "general",
            [called |-> TRUE, ok |-> FALSE, label |-> <<>>],
            Str(<<>>),
            << BackendCall("classifier", "invoke", t, <<>>),
               BackendCall("general", "invoke", t, <<>>) >>,
            <<>>, "none")

\* self._classify(text) raises inside the try block of the text branch:
\* control goes to `except Exception`, which logs the error and re-raises;
\* the lines that choose and call a model are skipped.
ClassifierFailed(t, where) ==
    Outcome("raised", "none",
            [called |-> TRUE, ok |-> FALSE, label |-> <<>>], NoValue,
            << BackendCall("classifier", "invoke", t, <<>>) >>,
            << LogError("router", where, "ClassifierError") >>,
            "ClassifierError")

\* ModelRouter.route(text, image_path); cfail, bfail: whether the
\* classifier's and the chosen backend's invoke raise.
route(t, img, cfail, bfail) ==
    IF Truthy(img) THEN
        IF ~Readable(img) THEN
            Outcome("raised", "none", NotClassified, NoValue, <<>>,
                    << LogError("router", "encode_image_to_base64", "IOError"),
                       LogError("router", "route.vision", "IOError") >>,
                    "IOError")
        ELSE IF bfail THEN
            Outcome("raised", "none", NotClassified, NoValue,
                    << BackendCall("vision", "invoke", t, DataUrl(img)) >>,
                    << LogError("router", "route.vision", "BackendError") >>,
                    "BackendError")
        ELSE
            Outcome("returned", "vision", NotClassified, InvokeResult,
                    << BackendCall("vision", "invoke", t, DataUrl(img)) >>,
                    <<>>, "none")
    ELSE
        IF cfail THEN ClassifierFailed(t, "route.text")
        ELSE
            LET lab == Classify(response)
                model_type == SelectModel(lab)
                c == [called |-> TRUE, ok |-> TRUE, label |-> lab]
                inv == << BackendCall("classifier", "invoke", t, <<>>),
                          BackendCall(model_type, "invoke", t, <<>>) >>
            IN  IF bfail THEN
                    Outcome("raised", "none", c, NoValue, inv,
                            << LogError("router", "route.text", "BackendError") >>,
                            "BackendError")
                ELSE
                    Outcome("returned", model_type, c, InvokeResult, inv,
                            <<>>, "none")

\* ModelRouter.stream_route(text, image_path) up to its return statement;
\* cfail, sfail: whether the classifier's invoke and the creation of the
\* backend stream raise. The payload is unused: the stream is lazy.
stream_route(t, img, cfail, sfail) ==
    IF Truthy(img) THEN
        IF ~Readable(img) THEN
            Outcome("raised", "none", NotClassified, NoValue, <<>>,
                    << LogError("router", "encode_image_to_base64", "IOError"),
                       LogError("router", "stream_route.vision", "IOError") >>,
                    "IOError")
        ELSE IF sfail THEN
            Outcome("raised", "none", NotClassified, NoValue,
                    << BackendCall("vision", "stream", t, DataUrl(img)) >>,
                    << LogError("router", "stream_route.vision", "BackendError") >>,
                    "BackendError")
        ELSE
            Outcome("returned", "vision", NotClassified, NoValue,
                    << BackendCall("vision", "stream", t, DataUrl(img)) >>,
                    <<>>, "none")
    ELSE
        IF cfail THEN ClassifierFailed(t, "stream_route.text")
        ELSE
            LET lab == Classify(response)
                model_type == SelectModel(lab)
                c == [called |-> TRUE, ok |-> TRUE, label |-> lab]
                inv == << BackendCall("classifier", "invoke", t, <<>>),
                          BackendCall(model_type, "stream", t, <<>>) >>
            IN  IF sfail THEN
                    Outcome("raised", "none", c, NoValue, inv,
                            << LogError("router", "stream_route.text", "BackendError") >>,
                            "BackendError")
                ELSE
                    Outcome("returned", model_type, c, NoValue, inv, <<>>, "none")

\* ------------------------------------------------------------------ streams
\* The backend stream a call's generator reads. Every stream_route call
\* opens its own: `stream` is a local of the call.
SharedStream(c) == 1

StreamOf(c) == c

\* The Router keeps a reference to the stream it opened.
RouterKeepsStream == TRUE

\* After stream_route returns, the only reference to `stream` is the
\* closure of the generator it returned: the Router object holds none.
RouterRetainsStream == FALSE

\* `chunk.content if hasattr(chunk, "content") else chunk`
Unwrap(chunk) == IF HasContent(chunk) THEN Str(chunk.content) ELSE chunk

\* What the backend stream can do when asked for the element after p.
BackendEvents(p) == {"fail"} \cup (IF p < nfrags THEN {"chunk"} ELSE {"end"})

\* The whole backend stream is read at the first pull.
StreamWithTypeEager(p, ev) ==
    IF ev = "chunk" THEN
        [kind |-> "yield", value |-> Unwrap(BackendChunk(p + 1)),
         pos |-> nfrags, stream |-> "open"]
    ELSE IF ev = "end" THEN
        [kind |-> "stop", value |-> NoValue, pos |-> p, stream |-> "closed"]
    ELSE
        [kind |-> "raise", value |-> NoValue, pos |-> p, stream |-> "closed"]

\* A backend failure costs the fragment that was in flight: one more
\* element is taken from the backend stream than is handed on.
StreamWithTypeLosesFragment(p, ev) ==
    IF ev = "chunk" THEN
        [kind |-> "yield", value |-> Unwrap(BackendChunk(p + 1)),
         pos |-> p + 1, stream |-> "open"]
    ELSE IF ev = "end" THEN
        [kind |-> "stop", value |-> NoValue, pos |-> p, stream |-> "closed"]
    ELSE
        [kind |-> "raise", value |-> NoValue, pos |-> p + 1, stream |-> "closed"]

\* One resumption of stream_with_type(): `for chunk in stream: yield ...`
\* asks the backend stream for one element; ev is what the backend does.
StreamWithTypeNext(p, ev) ==
    IF ev = "chunk" THEN
        [kind |-> "yield", value |-> Unwrap(BackendChunk(p + 1)),
         pos |-> p + 1, stream |-> "open"]
    ELSE IF ev = "end" THEN
        [kind |-> "stop", value |-> NoValue, pos |-> p, stream |-> "closed"]
    ELSE
        [kind |-> "raise", value |-> NoValue, pos |-> p, stream |-> "closed"]

\* ------------------------------------------------------------------ service
\* json.dumps accepts strings, not message objects (TypeError).
JsonSerializable(v) == v.kind = "str"

\* ''.join(str(c) for c in chunks)
FullResponse(cs) == Str(JoinText(cs))

SummaryRecord(model_type, t, img, resp) ==
    [model_type |-> model_type, input_text |-> t, image_path |-> img,
     response |-> resp]

\* ------------------------------------------------------------------ actions
\* No HTTP request has arrived and no command-line process runs.
InitOutside ==
    /\ assets = <<>>
    /\ http = <<>>
    /\ handled = <<>>
    /\ session = <<>>
    /\ stdin = <<>>

\* The Router as ModelRouter.__init__ leaves it, built from a mapping
\* that names the default models.
InitRouter ==
    /\ config = Defaults
    /\ router = LoadModels(config)

\* No call has been made.
InitCalls ==
    /\ api = [c \in Calls |-> "none"]
    /\ pc = [c \in Calls |-> "idle"]
    /\ label = [c \in Calls |-> "none"]
    /\ cls = [c \in Calls |-> NotClassified]
    /\ payload = [c \in Calls |-> NoValue]
    /\ ret = [c \in Calls |-> NoValue]
    /\ received = [c \in Calls |-> <<>>]
    /\ chunks = [c \in Calls |-> <<>>]
    /\ pos = [c \in Calls |-> 0]
    /\ backendStream = [c \in Calls |-> "none"]
    /\ invoked = [c \in Calls |-> <<>>]
    /\ errlog = [c \in Calls |-> <<>>]
    /\ summaries = [c \in Calls |-> <<>>]
    /\ raised = [c \in Calls |-> "none"]
    /\ extraPulls = [c \in Calls |-> 0]

Init ==
    /\ response \in ClassifierResponses
    /\ classified = NotClassified
    /\ backendKind \in {"text", "message"}
    /\ nfrags \in 0..MaxFrags
    /\ text \in Texts
    /\ image_path \in ImagePaths
    /\ InitCalls
    /\ InitRouter
    /\ InitOutside

\* The caller calls entry point f with (text, image_path).
Enter(c, f) ==
    /\ pc[c] = "idle"
    /\ api' = [api EXCEPT ![c] = f]

\* What the router did, as outcome o reports it.
Routed(c, o) ==
    /\ label' = [label EXCEPT ![c] = o.label]
    /\ cls' = [cls EXCEPT ![c] = o.cls]
    /\ invoked' = [invoked EXCEPT ![c] = o.invoked]

\* A direct call of ModelRouter.route.
RouteCall(c) ==
    \E cfail \in BOOLEAN, bfail \in BOOLEAN :
        LET o == route(text, image_path, cfail, bfail)
        IN  /\ Enter(c, "route")
            /\ Routed(c, o)
            /\ payload' = [payload EXCEPT ![c] = o.payload]
            /\ pc' = [pc EXCEPT ![c] = o.status]
            /\ errlog' = [errlog EXCEPT ![c] = o.errlog]
            /\ raised' = [raised EXCEPT ![c] = o.error]
            /\ router' = RouterAfter(router)
            /\ UNCHANGED <<env, outside, ret, streaming, summaries>>

\* InferenceService.run.
Run(c) ==
    \E cfail \in BOOLEAN, bfail \in BOOLEAN :
        LET o == route(text, image_path, cfail, bfail)
            dumped == o.status = "returned" /\ JsonSerializable(o.payload)
            error == IF o.status = "raised" THEN o.error
                     ELSE IF dumped THEN "none" ELSE "TypeError"
        IN  /\ Enter(c, "run")
            /\ Routed(c, o)
            /\ payload' = [payload EXCEPT ![c] = o.payload]
            /\ summaries' = [summaries EXCEPT ![c] =
                   IF dumped
                   THEN << SummaryRecord(o.label, text, image_path, o.payload) >>
                   ELSE <<>>]
            /\ ret' = [ret EXCEPT ![c] = IF dumped THEN o.payload ELSE NoValue]
            /\ pc' = [pc EXCEPT ![c] = IF dumped THEN "returned" ELSE "raised"]
            /\ raised' = [raised EXCEPT ![c] = error]
            /\ errlog' = [errlog EXCEPT ![c] =
                   IF dumped THEN <<>>
                   ELSE o.errlog \o << LogError("service", "run", error) >>]
            /\ router' = RouterAfter(router)
            /\ UNCHANGED <<env, outside, streaming>>

\* A direct call of ModelRouter.stream_route: the decision is made and the
\* generator is returned; nothing has been read from the backend.
StreamRouteCall(c) ==
    \E cfail \in BOOLEAN, sfail \in BOOLEAN :
        LET o == stream_route(text, image_path, cfail, sfail)
            ok == o.status = "returned"
        IN  /\ Enter(c, "stream_route")
            /\ Routed(c, o)
            /\ pc' = [pc EXCEPT ![c] = IF ok THEN "suspended" ELSE "raised"]
            /\ errlog' = [errlog EXCEPT ![c] = o.errlog]
            /\ raised' = [raised EXCEPT ![c] = o.error]
            /\ pos' = IF ok THEN [pos EXCEPT ![StreamOf(c)] = 0] ELSE pos
            /\ backendStream' =
                   IF ok THEN [backendStream EXCEPT ![StreamOf(c)] = "created"]
                   ELSE backendStream
            /\ router' = RouterAfter(router)
            /\ UNCHANGED <<env, outside, payload, ret, received, chunks, extraPulls,
                           summaries>>

\* Calling InferenceService.run_stream only creates a generator: no line of
\* its body has run.
RunStreamCall(c) ==
    /\ Enter(c, "run_stream")
    /\ pc' = [pc EXCEPT ![c] = "created"]
    /\ UNCHANGED <<env, outside, router, routing, ret, streaming, errlog,
                   summaries, raised>>

\* The generator of call c goes on by step n of stream_with_type; service
\* tells whether the consumer reads through run_stream, lab is model_type.
Advance(c, n, service, lab) ==
    /\ pos' = [pos EXCEPT ![StreamOf(c)] = n.pos]
    /\ backendStream' = [backendStream EXCEPT ![StreamOf(c)] = n.stream]
    /\ received' = [received EXCEPT ![c] =
           IF n.kind = "yield" THEN Append(@, n.value) ELSE @]
    /\ chunks' = [chunks EXCEPT ![c] =
           IF n.kind = "yield" /\ service THEN Append(@, n.value) ELSE @]
    /\ pc' = [pc EXCEPT ![c] =
           IF n.kind = "yield" THEN "suspended"
           ELSE IF n.kind = "stop" THEN "exhausted" ELSE "raised"]
    /\ raised' = [raised EXCEPT ![c] =
           IF n.kind = "raise" THEN "BackendError" ELSE @]
    /\ summaries' = [summaries EXCEPT ![c] =
           IF n.kind = "stop" /\ service
           THEN Append(@, SummaryRecord(lab, text, image_path,
                                        FullResponse(chunks[c])))
           ELSE @]
    /\ errlog' = [errlog EXCEPT ![c] =
           IF n.kind = "raise" /\ service
           THEN Append(@, LogError("service", "run_stream", "BackendError"))
           ELSE @]

\* The consumer of a stream_route generator asks for the next fragment.
StreamPull(c) ==
    /\ pc[c] = "suspended"
    /\ api[c] = "stream_route"
    /\ \E ev \in BackendEvents(pos[StreamOf(c)]) :
           Advance(c, StreamWithTypeNext(pos[StreamOf(c)], ev), FALSE, label[c])
    /\ UNCHANGED <<env, outside, router, request, routing, ret, extraPulls>>

\* The first next() on a run_stream generator: the body runs from its first
\* line, through stream_route, to the first yield, the end or an error.
RunStreamStart(c) ==
    /\ pc[c] = "created"
    /\ \E cfail \in BOOLEAN, sfail \in BOOLEAN :
         LET o == stream_route(text, image_path, cfail, sfail)
         IN  /\ Routed(c, o)
             /\ IF o.status = "raised" THEN
                    /\ pc' = [pc EXCEPT ![c] = "raised"]
                    /\ raised' = [raised EXCEPT ![c] = o.error]
                    /\ errlog' = [errlog EXCEPT ![c] = o.errlog \o
                           << LogError("service", "run_stream", o.error) >>]
                    /\ UNCHANGED <<streaming, summaries>>
                ELSE
                    /\ \E ev \in BackendEvents(0) :
                           Advance(c, StreamWithTypeNext(0, ev), TRUE, o.label)
                    /\ UNCHANGED extraPulls
    /\ router' = RouterAfter(router)
    /\ UNCHANGED <<env, outside, request, payload, ret>>

\* A later next() on a run_stream generator: the loop resumes after yield.
RunStreamResume(c) ==
    /\ pc[c] = "suspended"
    /\ api[c] = "run_stream"
    /\ \E ev \in BackendEvents(pos[StreamOf(c)]) :
           Advance(c, StreamWithTypeNext(pos[StreamOf(c)], ev), TRUE, label[c])
    /\ UNCHANGED <<env, outside, router, request, routing, ret, extraPulls>>

\* next() on a generator that has run to its end raises StopIteration
\* again: no fragment.
ExtraPull(c) ==
    /\ pc[c] = "exhausted"
    /\ extraPulls[c] < MaxExtraPulls
    /\ extraPulls' = [extraPulls EXCEPT ![c] = @ + 1]
    /\ UNCHANGED <<env, outside, router, request, pc, routing, ret, received,
                   chunks, pos,
                   backendStream, errlog, summaries, raised>>

\* The consumer stops iterating and lets go of the generator.
Drop(c) ==
    /\ pc[c] \in {"created", "suspended"}
    /\ pc' = [pc EXCEPT ![c] = "dropped"]
    /\ UNCHANGED <<env, outside, router, request, routing, ret, streaming,
                   errlog, summaries,
                   raised>>

\* The runtime finalizes the unreferenced generator: close() raises
\* GeneratorExit at the yield, which `except Exception` does not catch, and
\* the generators and the backend stream it alone referenced are closed.
Finalize(c) ==
    /\ pc[c] = "dropped"
    /\ pc' = [pc EXCEPT ![c] = "closed"]
    /\ backendStream' = [backendStream EXCEPT ![StreamOf(c)] =
           IF @ \in {"created", "open"} /\ ~RouterRetainsStream
           THEN "closed" ELSE @]
    /\ UNCHANGED <<env, outside, router, request, routing, ret, received,
                   chunks, pos,
                   extraPulls, errlog, summaries, raised>>

Next ==
    \E c \in Calls :
        \/ RouteCall(c)
        \/ Run(c)
        \/ StreamRouteCall(c)
        \/ RunStreamCall(c)
        \/ StreamPull(c)
        \/ RunStreamStart(c)
        \/ RunStreamResume(c)
        \/ ExtraPull(c)
        \/ Drop(c)
        \/ Finalize(c)

Spec == Init /\ [][Next]_vars

\* The generators are finalized once nothing references them.
FairSpec == Spec /\ \A c \in Calls : WF_vars(Finalize(c))

\* ------------------------------------------------------------------
\* _classify on its own, over every response of at most MaxTokens tokens.
InitClassify ==
    /\ response \in Responses
    /\ classified = NotClassified
    /\ backendKind = "text"
    /\ nfrags = 0
    /\ text = ""
    /\ image_path = NoImage
    /\ InitCalls
    /\ InitRouter
    /\ InitOutside

ClassifyStep ==
    /\ ~classified.called
    /\ classified' = [called |-> TRUE, ok |-> TRUE, label |-> Classify(response)]
    /\ UNCHANGED <<response, backendKind, nfrags, text, image_path, outside,
                   router, request,
                   pc, routing, ret, streaming, errlog, summaries, raised>>

NextClassify == ClassifyStep

SpecClassify == InitClassify /\ [][NextClassify]_vars

\* ------------------------------------------------------------------ claims
\* The request carries an image: image_path is neither None nor empty.
HasImage == image_path \notin {NoImage, ""}

StreamingApis == {"stream_route", "run_stream"}

\* The router call made for c (route or stream_route) has returned.
RouterReturned(c) ==
    \/ api[c] \in {"route", "run"} /\ (pc[c] = "returned" \/ raised[c] = "TypeError")
    \/ api[c] \in StreamingApis /\ backendStream[c] # "none"

\* C1: for a call of route or stream_route with a non-empty image_path, and
\* any text, the classifier is never invoked, no backend but vision is
\* called, and the label returned is vision.
C1_VisionShortCircuit ==
    \A c \in Calls :
        (api[c] # "none" /\ HasImage) =>
            /\ ~cls[c].called
            /\ \A i \in 1..Len(invoked[c]) : invoked[c][i].backend = "vision"
            /\ label[c] \in {"none", "vision"}
            /\ RouterReturned(c) => (label[c] = "vision" /\ Len(invoked[c]) = 1)

\* A vision request with a text and a classifier response that would
\* classify as coding has been routed by route and by stream_route.
C1_Witness ==
    /\ HasImage /\ text = "q" /\ response = coding
    /\ api[1] = "route" /\ pc[1] = "returned" /\ label[1] = "vision"
    /\ api[2] = "stream_route" /\ pc[2] = "suspended" /\ label[2] = "vision"

\* C2: for a text-only request (image_path None or empty, any text, the
\* empty one included) the label is coding and the coding backend is the
\* one dispatched to exactly when the classifier's label is "coding";
\* otherwise it is general with the general backend; never vision.
C2_TextOnlyLabel ==
    \A c \in Calls :
        (api[c] # "none" /\ ~HasImage /\ RouterReturned(c)) =>
            /\ cls[c].ok
            /\ label[c] = (IF cls[c].label = coding THEN "coding" ELSE "general")
            /\ Len(invoked[c]) = 2
            /\ invoked[c][1].backend = "classifier"
            /\ invoked[c][2].backend = label[c]

\* Empty text, empty image path, a classifier that answers "vision": route
\* and stream_route both answered general.
C2_Witness ==
    /\ text = "" /\ image_path = "" /\ response = vision
    /\ api[1] = "route" /\ pc[1] = "returned" /\ label[1] = "general"
    /\ api[2] = "stream_route" /\ pc[2] = "suspended" /\ label[2] = "general"

\* The characters of s from i on read label w when case is ignored, and
\* neither neighbour is a word character.
WholeWordAt(s, i, w) ==
    /\ i >= 1
    /\ i + Len(w) - 1 <= Len(s)
    /\ \A k \in 1..Len(w) : LowerChar(s[i + k - 1]) = w[k]
    /\ i > 1 => ~IsWordChar(s[i - 1])
    /\ i + Len(w) <= Len(s) => ~IsWordChar(s[i + Len(w)])

HasWholeWord(s) == \E i \in 1..Len(s), k \in 1..3 : WholeWordAt(s, i, Labels[k])

\* C3: _classify returns the leftmost whole-word, case-insensitive
\* occurrence of general, coding or vision in the response, and the
\* response lowercased and trimmed when there is none; it does not raise.
C3_ClassifyFirstWholeWord ==
    classified.called =>
        /\ classified.ok
        /\ IF HasWholeWord(response)
           THEN \E i \in 1..Len(response), k \in 1..3 :
                    /\ WholeWordAt(response, i, Labels[k])
                    /\ classified.label = Labels[k]
                    /\ \A j \in 1..(i - 1), m \in 1..3 :
                           ~WholeWordAt(response, j, Labels[m])
           ELSE classified.label = Lower(Strip(response))

\* "Coding general": two whole words, the leftmost one wins, in lower case.
C3_Witness ==
    /\ classified.called
    /\ response = <<"C", "o", "d", "i", "n", "g">> \o <<" ">> \o general
    /\ classified.label = coding

\* "uncoding": the embedded coding is no match; the response comes back.
C3_WitnessEmbedded ==
    /\ classified.called
    /\ response = <<"u", "n">> \o coding
    /\ classified.label = <<"u", "n">> \o coding

\* " X ": no label; the response comes back trimmed and lowercased.
C3_WitnessFallback ==
    /\ classified.called
    /\ response = <<" ", "X", " ">>
    /\ classified.label = <<"x">>

\* C4 as claimed: the value returned by the classifier is general or coding.
C4_ClassifierNeverVision ==
    \A c \in Calls : cls[c].ok => cls[c].label \in {general, coding}

\* C4 amended: the classifier returns general, coding, vision or the
\* lowercased trimmed response; it is the router that never labels a
\* text-only request vision: a classifier value of vision gives general.
C4_OnlyRouterExcludesVision ==
    \A c \in Calls :
        cls[c].ok =>
            /\ cls[c].label \in {general, coding, vision, Lower(Strip(response))}
            /\ label[c] \in {"none", "general", "coding"}
            /\ (cls[c].label = vision /\ RouterReturned(c)) => label[c] = "general"

\* The classifier returned vision and the router labelled the request general.
C4_Witness ==
    \E c \in Calls :
        /\ cls[c].ok /\ cls[c].label = vision
        /\ api[c] = "run" /\ pc[c] = "returned" /\ label[c] = "general"

\* The first n fragments of the backend, as the consumer is to see them.
Emitted(n) == [i \in 1..n |-> Str(FragText(i))]

\* C5: with a deterministic backend, route and stream_route called with the
\* same (text, image_path) return the same label, and the fragments of the
\* drained stream, concatenated in order, are the payload route returned.
C5_RouteStreamEquivalent ==
    \A c, d \in Calls :
        ( /\ api[c] = "route" /\ pc[c] = "returned"
          /\ api[d] = "stream_route" /\ pc[d] = "exhausted" ) =>
            /\ label[c] = label[d]
            /\ payload[c] = Str(JoinText(received[d]))

\* C5 on the backends whose invoke returns a plain string.
C5_OnTextBackends == backendKind = "text" => C5_RouteStreamEquivalent

\* C6: when stream_route has returned, the label, the encoding or the
\* classification and the choice of the backend are done and no fragment
\* has been produced; the backend stream is never read ahead of the
\* consumer: it has given exactly the fragments the consumer has pulled.
C6_EagerLabelLazyFragments ==
    \A c \in Calls :
        /\ api[c] \in StreamingApis => pos[c] = Len(received[c])
        /\ (api[c] = "stream_route" /\ pc[c] # "raised") =>
               /\ label[c] \in {"general", "coding", "vision"}
               /\ HasImage \/ cls[c].ok
               /\ invoked[c] # <<>>
               /\ invoked[c][Len(invoked[c])] =
                      BackendCall(label[c], "stream", text,
                                  IF HasImage THEN DataUrl(image_path) ELSE <<>>)
        /\ (api[c] = "stream_route" /\ received[c] = <<>> /\ pc[c] = "suspended") =>
               backendStream[c] = "created"
        /\ received[c] # <<>> => label[c] # "none"

\* stream_route has just returned coding; the backend, which has two
\* fragments to give, has not been read.
C6_Witness ==
    \E c \in Calls :
        /\ api[c] = "stream_route" /\ pc[c] = "suspended"
        /\ label[c] = "coding" /\ nfrags = 2
        /\ pos[c] = 0 /\ received[c] = <<>>

\* What the consumer of call c has seen is a prefix f1..fk of the backend's
\* fragments, all of them once the sequence has ended.
InOrderOnce(c) ==
    /\ Len(received[c]) <= nfrags
    /\ received[c] = Emitted(Len(received[c]))
    /\ pc[c] = "exhausted" => received[c] = Emitted(nfrags)

\* C7: a consumer that drains the sequence of stream_route or run_stream
\* sees f1..fn in order, each once, then the end; an ended sequence yields
\* nothing more; two calls' sequences advance independently.
C7_FragmentsInOrderOnce ==
    /\ [](\A c \in Calls : InOrderOnce(c))
    /\ [][\A c \in Calls :
              pc[c] = "exhausted" =>
                  (pc'[c] = "exhausted" /\ received'[c] = received[c])]_vars

\* Scenario 5 twice over: one call drained "Hel", "lo" and was asked once
\* more; the other, interleaved with it, is one fragment in.
C7_Witness ==
    /\ nfrags = 2
    /\ api[1] = "run_stream" /\ pc[1] = "exhausted" /\ extraPulls[1] = 1
    /\ received[1] = << Str(<<"H", "e", "l">>), Str(<<"l", "o">>) >>
    /\ api[2] = "stream_route" /\ pc[2] = "suspended"
    /\ received[2] = << Str(<<"H", "e", "l">>) >>

C9_OneSummaryPerCall ==
    \A c \in Calls :
        /\ Len(summaries[c]) <= 1
        /\ (api[c] = "run" /\ RouterReturned(c)) =>
               /\ summaries[c] =
                      << SummaryRecord(label[c], text, image_path, payload[c]) >>
               /\ pc[c] = "returned"
               /\ ret[c] = payload[c]
        /\ (api[c] = "run_stream" /\ pc[c] = "exhausted") =>
               summaries[c] =
                   << SummaryRecord(label[c], text, image_path,
                                    Str(JoinText(received[c]))) >>
        /\ (api[c] = "run_stream" /\ pc[c] # "exhausted") => summaries[c] = <<>>

\* C9 without the calls of run whose router result json.dumps rejects.
C9_OnCompletedCalls ==
    \A c \in Calls :
        /\ Len(summaries[c]) <= 1
        /\ (api[c] = "run" /\ pc[c] = "returned") =>
               /\ summaries[c] =
                      << SummaryRecord(label[c], text, image_path, payload[c]) >>
               /\ ret[c] = payload[c]
        /\ (api[c] = "run_stream" /\ pc[c] = "exhausted") =>
               summaries[c] =
                   << SummaryRecord(label[c], text, image_path,
                                    Str(JoinText(received[c]))) >>
        /\ (api[c] = "run_stream" /\ pc[c] # "exhausted") => summaries[c] = <<>>
        /\ pc[c] = "raised" => summaries[c] = <<>>

DispatchErrors == {"IOError", "ClassifierError", "BackendError"}

\* C10: a failure of classification, image encoding or a backend call is
\* logged at error level by the Router, and again by the Inference Service
\* when the call went through it, and ends the call as that same error,
\* with no result, no second backend call and no summary record.
C10_FailuresLoggedAndReraised ==
    \A c \in Calls :
        raised[c] \in DispatchErrors =>
            /\ pc[c] = "raised"
            /\ ret[c] = NoValue /\ summaries[c] = <<>>
            /\ \E i \in 1..Len(errlog[c]) :
                   errlog[c][i].by = "router" /\ errlog[c][i].error = raised[c]
            /\ api[c] \in {"run", "run_stream"} =>
                   /\ errlog[c] # <<>>
                   /\ errlog[c][Len(errlog[c])].by = "service"
                   /\ errlog[c][Len(errlog[c])].error = raised[c]
            /\ Len(invoked[c]) <= 2

\* C10 for the failures raised while route or stream_route is running.
C10_InsideRouterCall ==
    \A c \in Calls :
        (raised[c] \in DispatchErrors /\ backendStream[c] = "none") =>
            /\ pc[c] = "raised"
            /\ ret[c] = NoValue /\ summaries[c] = <<>>
            /\ \E i \in 1..Len(errlog[c]) :
                   errlog[c][i].by = "router" /\ errlog[c][i].error = raised[c]
            /\ api[c] \in {"run", "run_stream"} =>
                   /\ errlog[c][Len(errlog[c])].by = "service"
                   /\ errlog[c][Len(errlog[c])].error = raised[c]

\* The router call of c, if c makes one, has been made.
RouterCalled(c) ==
    \/ api[c] \in {"route", "run", "stream_route"}
    \/ api[c] = "run_stream" /\ pc[c] \notin {"created", "dropped", "closed"}

\* C11: a call of route or stream_route (direct, or through run or
\* run_stream) with a non-empty image_path that names a file that cannot be
\* read fails with the I/O error of the encode step, logged by that step
\* first; no backend and no classifier is invoked, before or after: the
\* request is not retried as text-only; nothing is returned or yielded and
\* no summary record is emitted for the call.
C11_MissingImageFails ==
    \A c \in Calls :
        image_path = "missing.png" =>
            /\ invoked[c] = <<>> /\ ~cls[c].called
            /\ label[c] = "none" /\ payload[c] = NoValue /\ ret[c] = NoValue
            /\ received[c] = <<>> /\ backendStream[c] = "none"
            /\ summaries[c] = <<>>
            /\ RouterCalled(c) =>
                   /\ pc[c] = "raised" /\ raised[c] = "IOError"
                   /\ errlog[c][1] =
                          LogError("router", "encode_image_to_base64", "IOError")

\* route and the stream_route of run_stream were given missing.png, with a
\* text: both ended with the I/O error.
C11_Witness ==
    /\ image_path = "missing.png" /\ text = "q"
    /\ api[1] = "route" /\ pc[1] = "raised" /\ raised[1] = "IOError"
    /\ api[2] = "run_stream" /\ pc[2] = "raised" /\ raised[2] = "IOError"

\* C12: when the classifier's backend call fails, the text-only request
\* fails with that error: the classifier call is the only backend call of
\* the request, no label and no response are returned, nothing is streamed.
C12_ClassifierFailureFailsRequest ==
    \A c \in Calls :
        (cls[c].called /\ ~cls[c].ok) =>
            /\ ~HasImage
            /\ pc[c] = "raised" /\ raised[c] = "ClassifierError"
            /\ Len(invoked[c]) = 1 /\ invoked[c][1].backend = "classifier"
            /\ label[c] = "none" /\ payload[c] = NoValue /\ ret[c] = NoValue
            /\ backendStream[c] = "none" /\ received[c] = <<>>
            /\ summaries[c] = <<>>

\* The classifier failed under run and under stream_route.
C12_Witness ==
    /\ text = "q" /\ image_path = NoImage
    /\ api[1] = "run" /\ cls[1].called /\ ~cls[1].ok /\ pc[1] = "raised"
    /\ api[2] = "stream_route" /\ cls[2].called /\ ~cls[2].ok /\ pc[2] = "raised"

\* The backend stream of run_stream call c failed while it was consumed.
FailedMidStream(c) ==
    /\ api[c] = "run_stream" /\ pc[c] = "raised"
    /\ backendStream[c] # "none"

\* C13: when the backend fails mid-stream after it gave k fragments, the
\* consumer of run_stream has received exactly those k fragments, in order,
\* and then the error, which the service logged at error level last; after
\* the error no fragment is produced and no summary record is emitted.
C13_MidStreamFailure ==
    /\ [](\A c \in Calls :
            FailedMidStream(c) =>
                /\ raised[c] = "BackendError"
                /\ Len(received[c]) = pos[c]
                /\ received[c] = Emitted(pos[c])
                /\ chunks[c] = received[c]
                /\ errlog[c] # <<>>
                /\ errlog[c][Len(errlog[c])] =
                       LogError("service", "run_stream", "BackendError")
                /\ summaries[c] = <<>>)
    /\ [][\A c \in Calls :
              FailedMidStream(c) =>
                  /\ pc'[c] = "raised"
                  /\ received'[c] = received[c]
                  /\ summaries'[c] = <<>>]_vars

\* The backend failed after one of its two fragments; the other call
\* drained the same backend output.
C13_Witness ==
    /\ nfrags = 2
    /\ FailedMidStream(1) /\ received[1] = << Str(<<"H", "e", "l">>) >>
    /\ api[2] = "run_stream" /\ pc[2] = "exhausted"

\* C14: within a request the backend calls are sequential: a call of the
\* general or coding backend is the second call, made after the classifier
\* call has returned a label; a successful text-only request has made
\* exactly the classifier call and then one call of the backend of its
\* label; a request with an image makes at most one call, and a successful
\* one exactly one, to the vision backend with one message that carries
\* the text and the image.
C14_SequentialCalls ==
    \A c \in Calls :
        /\ \A i \in 1..Len(invoked[c]) :
               invoked[c][i].backend \in {"general", "coding"} =>
                   /\ i = 2 /\ Len(invoked[c]) = 2
                   /\ invoked[c][1].backend = "classifier"
                   /\ cls[c].called /\ cls[c].ok
        /\ (RouterReturned(c) /\ ~HasImage) =>
               /\ Len(invoked[c]) = 2
               /\ invoked[c][1].backend = "classifier"
               /\ invoked[c][1].text = text
               /\ invoked[c][2].backend \in {"general", "coding"}
               /\ invoked[c][2].backend = label[c]
               /\ invoked[c][2].text = text /\ invoked[c][2].image = <<>>
        /\ HasImage => Len(invoked[c]) <= 1
        /\ (RouterReturned(c) /\ HasImage) =>
               /\ Len(invoked[c]) = 1
               /\ invoked[c][1].backend = "vision"
               /\ invoked[c][1].text = text
               /\ invoked[c][1].image = <<"data:image/png;base64", image_path>>

\* A vision request with a text: run made its one call and returned.
C14_Witness ==
    /\ image_path = "cat.png" /\ text = "q"
    /\ api[1] = "run" /\ pc[1] = "returned" /\ Len(invoked[1]) = 1
    /\ api[2] = "run_stream" /\ pc[2] = "exhausted" /\ Len(invoked[2]) = 1

\* A text-only request: classifier, then the coding backend.
C14_WitnessText ==
    /\ ~HasImage /\ text = "q"
    /\ api[1] = "route" /\ pc[1] = "returned" /\ label[1] = "coding"
    /\ Len(invoked[1]) = 2

\* C15: no call of route, stream_route, _classify, run or run_stream,
\* succeeding or failing, changes a binding or any other field of the
\* Router: it is as construction left it after any sequence of requests.
C15_RouterImmutable ==
    /\ [](router = LoadModels(Defaults))
    /\ [][router' = router]_vars

\* One request succeeded, one failed; the Router is as constructed.
C15_Witness ==
    /\ api[1] = "run" /\ pc[1] = "returned"
    /\ api[2] = "run_stream" /\ pc[2] = "raised" /\ raised[2] = "BackendError"
    /\ router.router_model = "llama3.2:3b" /\ router.coding = "qwen2.5-coder:3b"

\* ------------------------------------------------------------------
\* utils/image_handler.py. A text is a sequence of words; the tag <image>
\* is one word, and so is a blank. NoText stands for None.
ImageTag == "<image>"
NoText == << "<None>" >>
Words == {ImageTag, "hi", " ", "cat.png", "missing.png", "locked.png"}

RECURSIVE WordStrings(_)
WordStrings(n) ==
    IF n = 0 THEN { <<>> }
    ELSE LET shorter == WordStrings(n - 1)
         IN  shorter \cup { s \o << w >> : s \in shorter, w \in Words }

\* input_text: None or a string.
ImageTexts == {NoText} \cup WordStrings(MaxWords)
\* input_image: None, the empty string or a path.
ExplicitImages ==
    {NoImage, "", "cat.png", " cat.png", "missing.png", "locked.png"}

\* os.path.isfile: cat.png and locked.png exist; locked.png may not be read.
IsFile(p) == p \in {"cat.png", "locked.png"}
MayRead(p) == p = "cat.png"
FileBytes(p) == << "c", "a", "t" >>

\* str.strip() on a path.
PathStrip(p) == IF p = " cat.png" THEN "cat.png" ELSE p

\* The words of a stripped tag body as a path: the empty string, the one
\* word, or a longer string, which names no file.
PathName(ws) ==
    IF ws = <<>> THEN "" ELSE IF Len(ws) = 1 THEN ws[1] ELSE "<no such file>"

\* os.path.join('assets', os.path.basename(path))
AssetPath(p) == IF p = "cat.png" THEN "assets/cat.png" ELSE "assets/dog.png"

\* The first index from k on that holds the tag, 0 when there is none.
RECURSIVE TagFrom(_, _)
TagFrom(s, k) ==
    IF k > Len(s) THEN 0
    ELSE IF s[k] = ImageTag THEN k
    ELSE TagFrom(s, k + 1)

\* re.search(r"<image>(.*?)<image>", s): the leftmost tag that has a tag
\* after it, with the nearest such tag; <<>> stands for None.
TagSearch(s) ==
    LET i == TagFrom(s, 1)
        j == IF i = 0 THEN 0 ELSE TagFrom(s, i + 1)
    IN  IF j = 0 THEN <<>> ELSE << i, j >>

\* re.sub(r"<image>.*?<image>", "", s): every match removed, left to right.
RECURSIVE TagSub(_)
TagSub(s) ==
    LET m == TagSearch(s)
    IN  IF m = <<>> THEN s
        ELSE SubSeq(s, 1, m[1] - 1) \o TagSub(SubSeq(s, m[2] + 1, Len(s)))

\* What a call of handle_image did: how it ended, the pair it returned,
\* the asset it wrote and the error lines it printed.
Handled(status, t, img, copied, errors) ==
    [status |-> status, text |-> t, image |-> img, copied |-> copied,
     errors |-> errors]

NotHandled == Handled("none", NoText, NoImage, "none", 0)

\* The file exists: it is copied into assets/ (shutil.copy raises on a file
\* that may not be read) and the asset path is returned with text t.
StoreImage(path, t) ==
    IF MayRead(path) THEN Handled("returned", t, AssetPath(path), AssetPath(path), 0)
    ELSE Handled("raised", NoText, NoImage, "none", 0)

\* handle_image(input_text, input_image, logger)
handle_image(input_text, input_image) ==
    IF input_image \in {NoImage, ""} /\ input_text \notin {NoText, <<>>} THEN
        LET image_tag == TagSearch(input_text)
            tag_path ==
                PathName(Strip(SubSeq(input_text, image_tag[1] + 1,
                                      image_tag[2] - 1)))
        IN  IF image_tag = <<>> THEN
                Handled("returned", input_text, input_image, "none", 0)
            ELSE IF IsFile(tag_path) THEN
                StoreImage(tag_path, Strip(TagSub(input_text)))
            ELSE
                Handled("returned", input_text, NoImage, "none", 1)
    ELSE IF input_image \notin {NoImage, ""} THEN
        IF IsFile(PathStrip(input_image)) THEN
            StoreImage(PathStrip(input_image), input_text)
        ELSE
            Handled("returned", input_text, NoImage, "none", 1)
    ELSE
        Handled("returned", input_text, input_image, "none", 0)

\* The copy made by a call of handle_image, in the asset store a.
Stored(a, h) ==
    IF h.copied = "none" THEN a
    ELSE [q \in DOMAIN a \cup {h.copied} |->
             IF q = h.copied THEN FileBytes("cat.png") ELSE a[q]]

\* handle_image on its own, over every text of at most MaxWords words.
InitImage ==
    /\ response = <<>>
    /\ classified = NotClassified
    /\ backendKind = "text"
    /\ nfrags = 0
    /\ text = ""
    /\ image_path = NoImage
    /\ InitCalls
    /\ InitRouter
    /\ assets = <<>>
    /\ http = <<>>
    /\ session = <<>>
    /\ stdin = <<>>
    /\ \E t \in ImageTexts, i \in ExplicitImages :
           handled = [called |-> FALSE, input_text |-> t, input_image |-> i,
                      result |-> NotHandled]

HandleImageStep ==
    /\ ~handled.called
    /\ handled' = [handled EXCEPT
           !.called = TRUE,
           !.result = handle_image(handled.input_text, handled.input_image)]
    /\ assets' = Stored(assets, handled'.result)
    /\ UNCHANGED <<env, calls, router, http, session, config, stdin>>

NextImage == HandleImageStep

SpecImage == InitImage /\ [][NextImage]_vars

\* Some tag, closed by a later tag, stands in s.
HasTagPair(s) ==
    \E i, j \in 1..Len(s) : i < j /\ s[i] = ImageTag /\ s[j] = ImageTag

\* The arguments name an image, inline or explicitly, that is no file.
NamesMissingImage(t, img) ==
    IF img \notin {NoImage, ""} THEN ~IsFile(PathStrip(img))
    ELSE /\ t # NoText
         /\ HasTagPair(t)
         /\ LET i == CHOOSE k \in 1..Len(t) :
                         t[k] = ImageTag /\ \A m \in 1..(k - 1) : t[m] # ImageTag
                j == CHOOSE k \in (i + 1)..Len(t) :
                         t[k] = ImageTag /\ \A m \in (i + 1)..(k - 1) : t[m] # ImageTag
            IN  ~IsFile(PathName(Strip(SubSeq(t, i + 1, j - 1))))

\* C18: when the file named by the inline tag or by the explicit path does
\* not exist, handle_image returns no image path and a text in which no
\* inline image tag is left.
C18_UnresolvedImageStripsTags ==
    (handled.called /\ NamesMissingImage(handled.input_text, handled.input_image)) =>
        /\ handled.result.status = "returned"
        /\ handled.result.image = NoImage
        /\ ~HasTagPair(handled.result.text)

\* What the code does in that case: no image path, one error line, and the
\* text as it was given, tags included.
C18_UnresolvedImageKeepsText ==
    (handled.called /\ NamesMissingImage(handled.input_text, handled.input_image)) =>
        /\ handled.result.status = "returned"
        /\ handled.result.image = NoImage
        /\ handled.result.errors = 1
        /\ handled.result.text = handled.input_text

\* An inline tag that names cat.png, between words: the image is stored,
\* and the text comes back without the tag and trimmed.
C18_ResolvedWitness ==
    /\ handled.called
    /\ handled.input_text = << ImageTag, "cat.png", ImageTag, "hi" >>
    /\ handled.result.image = "assets/cat.png"
    /\ handled.result.text = << "hi" >>

\* ------------------------------------------------------------------
\* services/cli.py and services/interactive_session.py. The process makes
\* its inferences one at a time, as call 1 of the Inference Service.
\* --text and --image as given on the command line.
CliTexts == { NoText, << "hi" >>, << "hi", ImageTag, "missing.png", ImageTag >> }
CliImages == { NoImage, "cat.png", "missing.png", "locked.png" }

\* What the user may enter at the prompt (a prompt returns no empty input).
UserInputs ==
    { << "hi" >>, << " " >>,
      << "/bye" >>, << "quit" >>, << " ", "EXIT", " " >>,
      << "exit", " ", "hi" >>,
      << ImageTag, "cat.png", ImageTag >>,
      << "hi", ImageTag, "missing.png", ImageTag >>,
      << ImageTag, "locked.png", ImageTag >> }

\* str.lower() on a word.
LowerWord(w) == IF w = "EXIT" THEN "exit" ELSE w
LowerWords(s) == [i \in 1..Len(s) |-> LowerWord(s[i])]

QuitWords == { << "/bye" >>, << "exit" >>, << "quit" >> }

\* The input is compared as typed.
IsQuitAsTyped(u) == u \in QuitWords

\* user_input.strip().lower() in ('/bye', 'exit', 'quit')
IsQuit(u) == LowerWords(Strip(u)) \in QuitWords

\* `input_text or ''`
OrEmpty(t) == IF t \in {NoText, <<>>} THEN <<>> ELSE t

\* `if input_text or input_image:`
AnyInput(t, img) == t \notin {NoText, <<>>} \/ img \notin {NoImage, ""}

\* The terminal: whether prompt reports a failed read as click's Abort or
\* lets the built-in exception through, whether the input has ended, and
\* the exception the call of prompt in progress has raised.
Terminal(aborts, eof, exc) == [aborts |-> aborts, eof |-> eof, raised |-> exc]

\* The command-line process: where it stands, the request it works on
\* (the text typed or given, the image given), the number of prompts
\* shown, and for that request the inferences started, the error lines
\* printed and how handle_image ended.
Session(mode, prompts, input, image, inferences, errors, resolved) ==
    [mode |-> mode, prompts |-> prompts, input |-> input, image |-> image,
     inferences |-> inferences, errors |-> errors, resolved |-> resolved]

\* Call 1 is a fresh run_stream(t, img) generator if start, and no call
\* at all otherwise.
NewCall(start, t, img) ==
    /\ text' = t
    /\ image_path' = img
    /\ api' = [api EXCEPT ![1] = IF start THEN "run_stream" ELSE "none"]
    /\ pc' = [pc EXCEPT ![1] = IF start THEN "created" ELSE "idle"]
    /\ label' = [label EXCEPT ![1] = "none"]
    /\ cls' = [cls EXCEPT ![1] = NotClassified]
    /\ payload' = [payload EXCEPT ![1] = NoValue]
    /\ ret' = [ret EXCEPT ![1] = NoValue]
    /\ received' = [received EXCEPT ![1] = <<>>]
    /\ chunks' = [chunks EXCEPT ![1] = <<>>]
    /\ pos' = [pos EXCEPT ![1] = 0]
    /\ backendStream' = [backendStream EXCEPT ![1] = "none"]
    /\ invoked' = [invoked EXCEPT ![1] = <<>>]
    /\ errlog' = [errlog EXCEPT ![1] = <<>>]
    /\ summaries' = [summaries EXCEPT ![1] = <<>>]
    /\ raised' = [raised EXCEPT ![1] = "none"]
    /\ extraPulls' = [extraPulls EXCEPT ![1] = 0]

InitCli ==
    /\ response \in ClassifierResponses
    /\ classified = NotClassified
    /\ backendKind \in {"text", "message"}
    /\ nfrags \in 0..MaxFrags
    /\ text = <<>>
    /\ image_path = NoImage
    /\ InitCalls
    /\ InitRouter
    /\ assets = <<>>
    /\ http = <<>>
    /\ handled = <<>>
    /\ \E a \in BOOLEAN : stdin = Terminal(a, FALSE, "none")
    /\ \E t \in CliTexts, i \in CliImages :
           session = Session("start", 0, t, i, 0, 0, "none")

\* cli.main up to the one-shot loop or the call of run_interactive.
\* handle_image is called outside every try: its exception ends the process.
CliMain ==
    /\ session.mode = "start"
    /\ LET h == handle_image(session.input, session.image)
           oneshot == h.status = "returned" /\ AnyInput(h.text, h.image)
       IN  /\ assets' = Stored(assets, h)
           /\ NewCall(oneshot, OrEmpty(h.text), h.image)
           /\ session' =
                  [session EXCEPT
                      !.mode = IF h.status = "raised" THEN "crashed"
                               ELSE IF oneshot THEN "oneshot" ELSE "prompt",
                      !.prompts = IF h.status = "returned" /\ ~oneshot THEN 1 ELSE 0,
                      !.inferences = IF oneshot THEN 1 ELSE 0,
                      !.errors = h.errors,
                      !.resolved = h.status]
    /\ UNCHANGED <<response, classified, backendKind, nfrags, router, config, stdin, http,
                   handled>>

\* The one-shot loop has consumed the stream to its end or to an error,
\* which it prints; main returns.
OneShotEnd ==
    /\ session.mode = "oneshot"
    /\ pc[1] \in {"exhausted", "raised"}
    /\ session' = [session EXCEPT
           !.mode = "done",
           !.errors = IF pc[1] = "raised" THEN @ + 1 ELSE @]
    /\ UNCHANGED <<env, calls, router, config, stdin, assets, http, handled>>

\* The user answers the prompt with u: the session ends on a quit word;
\* otherwise handle_image runs and, unless it raises (the loop prints the
\* error and prompts again), the stream of run_stream is consumed.
Prompt(u) ==
    /\ session.mode = "prompt"
    /\ ~stdin.eof
    /\ session.prompts <= MaxTurns
    /\ LET h == IF IsQuit(u) THEN NotHandled ELSE handle_image(u, NoImage)
           start == h.status = "returned"
       IN  /\ assets' = Stored(assets, h)
           /\ NewCall(start, OrEmpty(h.text), h.image)
           /\ session' =
                  Session(IF IsQuit(u) THEN "ended"
                          ELSE IF start THEN "turn" ELSE "prompt",
                          IF IsQuit(u) \/ start THEN session.prompts
                          ELSE session.prompts + 1,
                          u, NoImage, IF start THEN 1 ELSE 0,
                          h.errors + (IF h.status = "raised" THEN 1 ELSE 0),
                          h.status)
    /\ UNCHANGED <<response, classified, backendKind, nfrags, router, config, stdin, http,
                   handled>>

\* The loop of the turn has consumed the stream to its end or to an error,
\* which it prints; the next prompt is shown.
TurnEnd ==
    /\ session.mode = "turn"
    /\ pc[1] \in {"exhausted", "raised"}
    /\ session' = [session EXCEPT
           !.mode = "prompt",
           !.prompts = @ + 1,
           !.errors = IF pc[1] = "raised" THEN @ + 1 ELSE @]
    /\ UNCHANGED <<env, calls, router, config, stdin, assets, http, handled>>

NextCli ==
    \/ CliMain
    \/ OneShotEnd
    \/ \E u \in UserInputs : Prompt(u)
    \/ TurnEnd
    \/ RunStreamStart(1)
    \/ RunStreamResume(1)

SpecCli == InitCli /\ [][NextCli]_vars

\* The loops keep pulling, and the backend answers every pull.
FairCli ==
    /\ SpecCli
    /\ WF_vars(RunStreamStart(1))
    /\ WF_vars(RunStreamResume(1))
    /\ WF_vars(TurnEnd)
    /\ WF_vars(OneShotEnd)

\* C19: when the user names an image, by --image or by an inline tag,
\* whose file is missing, the one-shot run and the interactive turn abort
\* the request: no inference is started for it, so no backend is invoked
\* and it is not dispatched as a text-only request.
C19_MissingImageAborts ==
    NamesMissingImage(session.input, session.image) =>
        /\ session.inferences = 0
        /\ api[1] = "none" /\ invoked[1] = <<>>

\* What the code does: the error line is printed, and whenever a text is
\* left the request goes on without the image, as a text-only request
\* whose text still holds the tag.
C19_MissingImageRunsTextOnly ==
    (session.mode \notin {"start"}
     /\ NamesMissingImage(session.input, session.image)) =>
        /\ session.errors >= 1
        /\ session.input # NoText =>
               /\ session.inferences = 1
               /\ api[1] = "run_stream"
               /\ text = session.input /\ image_path = NoImage
        /\ session.input = NoText => session.mode = "prompt"

\* The inputs of UserInputs that read /bye, exit or quit once trimmed and
\* lowercased.
QuitCommands == { << "/bye" >>, << "quit" >>, << " ", "EXIT", " " >> }

\* The session is back at the prompt after it worked on an input.
TurnDone == session.mode = "prompt" /\ session.prompts > 1

\* What C20 says of every state; ExactlyOne is what holds of the
\* inferences of an input other than a quit word once the prompt is shown
\* again.
SessionLoop(ExactlyOne) ==
    /\ session.input \in QuitCommands =>
           /\ session.mode = "ended"
           /\ session.inferences = 0 /\ api[1] = "none"
    /\ session.mode = "ended" => session.input \in QuitCommands
    /\ session.mode = "turn" => session.inferences = 1 /\ api[1] = "run_stream"
    /\ TurnDone =>
           /\ session.input \notin QuitCommands
           /\ ExactlyOne
           /\ pc[1] = "raised" => session.errors >= 1

\* C20 as claimed: the session ends at once, with no inference, on /bye,
\* exit or quit (trimmed, lowercased); every other input has exactly one
\* streaming inference; a failed one is reported as an error line; and the
\* next prompt is always shown.
C20_ExactlyOneInference ==
    /\ [] SessionLoop(session.inferences = 1 /\ pc[1] \in {"exhausted", "raised"})
    /\ (session.mode = "turn") ~> (session.mode = "prompt")

\* C20 amended: every other input has at most one streaming inference:
\* exactly one when handle_image returns, and none when handle_image itself
\* raises, which is reported as an error line like a failed inference; the
\* next prompt is always shown.
C20_AtMostOneInference ==
    /\ [] SessionLoop(IF session.resolved = "raised"
                      THEN session.inferences = 0 /\ session.errors = 1
                      ELSE /\ session.inferences = 1
                           /\ pc[1] \in {"exhausted", "raised"})
    /\ (session.mode = "turn") ~> (session.mode = "prompt")

\* The second input's inference failed after one fragment: the error was
\* printed and the third prompt is shown.
C20_Witness ==
    /\ session.mode = "prompt" /\ session.prompts = 3
    /\ session.input = << "hi" >> /\ session.inferences = 1
    /\ pc[1] = "raised" /\ Len(received[1]) = 1 /\ session.errors = 1

\* " EXIT " ended the session.
C20_WitnessQuit ==
    /\ session.mode = "ended" /\ session.input = << " ", "EXIT", " " >>
    /\ session.inferences = 0

\* The image of the input exists but cannot be copied: no inference.
C20_WitnessNoInference ==
    /\ TurnDone /\ session.resolved = "raised" /\ session.inferences = 0

\* ------------------------------------------------------------------
\* services/http_server.py: POST /generate. One Router and one Inference
\* Service serve every request; an upload is stored as assets/<filename>.
Requests == {1, 2}

\* The form field text: absent (None) or the request's own text.
NoFormText == "<None>"
FormTexts(r) == { NoFormText, IF r = 1 THEN "p" ELSE "q" }
\* The upload: none, or a file name chosen by the client.
Uploads == { "none", "cat.png", "dog.png" }
\* The bytes a request uploads: the two requests upload different files.
UploadBytes(r) == IF r = 1 THEN << "a", "a" >> ELSE << "b" >>

\* `text or ''`
FormTextOrEmpty(t) == IF t \in {NoFormText, ""} THEN "" ELSE t

\* path: None, or os.path.join('assets', file.filename)
UploadPath(f) == IF f = "none" THEN NoImage ELSE AssetPath(f)

\* f.write(data) through a handle opened with 'wb' (position 0) on a file
\* that now holds old: data replaces the first Len(data) bytes.
WriteAtStart(data, old) == data \o SubSeq(old, Len(data) + 1, Len(old))

\* A request: where its handler stands; its form text, upload name and
\* stream flag; its generator ("none", "created", "running"); and what was
\* done for it: the label, the backend calls with the image bytes that
\* were read, the fragments sent, and the response ("none", "result",
\* "error", "stream": a streaming response in progress, "streamed": one
\* that ended, "escaped": an exception left the generator unconverted).
Request(phase, t, f, stream, gen, lab, sent, n, result) ==
    [phase |-> phase, text |-> t, file |-> f, stream |-> stream, gen |-> gen,
     label |-> lab, sent |-> sent, pos |-> n, result |-> result]

\* The backend calls of outcome o, with the bytes the encode step read
\* from path in asset store a in place of the path.
SentCalls(o, a, path) ==
    [i \in 1..Len(o.invoked) |->
        [backend |-> o.invoked[i].backend, text |-> o.invoked[i].text,
         image |-> IF o.invoked[i].image = <<>> THEN <<>> ELSE a[path]]]

InitHttp ==
    /\ response \in {coding, general}
    /\ classified = NotClassified
    /\ backendKind \in {"text", "message"}
    /\ nfrags \in 1..MaxFrags
    /\ text = ""
    /\ image_path = NoImage
    /\ InitCalls
    /\ InitRouter
    /\ assets = [q \in {AssetPath("cat.png"), AssetPath("dog.png")} |-> <<>>]
    /\ http \in [Requests -> [phase : {"new"}, text : {NoFormText, "p", "q"},
                              file : Uploads, stream : BOOLEAN, gen : {"none"},
                              label : {"none"}, sent : {<<>>}, pos : {0},
                              result : {"none"}]]
    /\ \A r \in Requests : http[r].text \in FormTexts(r)
    /\ handled = <<>>
    /\ session = <<>>
    /\ stdin = <<>>

\* The handler from the try block of the inference on, with asset store a:
\* a streaming response around a generator that has not started, or the
\* result of service.run, whose exceptions become {error}.
Serve(r, a) ==
    LET q == http[r]
    IN  IF q.stream THEN
            http' = [http EXCEPT ![r].phase = "streaming", ![r].gen = "created",
                                 ![r].result = "stream"]
        ELSE
            \E cfail \in BOOLEAN, bfail \in BOOLEAN :
                LET path == UploadPath(q.file)
                    o == route(FormTextOrEmpty(q.text), path, cfail, bfail)
                    ok == o.status = "returned" /\ JsonSerializable(o.payload)
                IN  http' = [http EXCEPT
                        ![r].phase = "done", ![r].label = o.label,
                        ![r].sent = SentCalls(o, a, path),
                        ![r].result = IF ok THEN "result" ELSE "error"]

\* A request without a file: the handler runs to its return.
HttpNoFile(r) ==
    /\ http[r].phase = "new" /\ http[r].file = "none"
    /\ Serve(r, assets)
    /\ UNCHANGED <<env, calls, router, config, stdin, assets, handled, session>>

\* open(path, 'wb') creates or truncates the file (or fails: {error});
\* the handler then awaits file.read(), and other requests may run.
HttpOpen(r) ==
    /\ http[r].phase = "new" /\ http[r].file # "none"
    /\ \E opened \in BOOLEAN :
           IF opened THEN
               /\ assets' = [assets EXCEPT ![UploadPath(http[r].file)] = <<>>]
               /\ http' = [http EXCEPT ![r].phase = "opened"]
           ELSE
               /\ http' = [http EXCEPT ![r].phase = "done", ![r].result = "error"]
               /\ UNCHANGED assets
    /\ UNCHANGED <<env, calls, router, config, stdin, handled, session>>

\* file.read() has returned: the bytes are written and the file closed;
\* the handler runs on to its return without another await.
HttpWrite(r) ==
    /\ http[r].phase = "opened"
    /\ assets' = [assets EXCEPT ![UploadPath(http[r].file)] =
                      WriteAtStart(UploadBytes(r), @)]
    /\ Serve(r, assets')
    /\ UNCHANGED <<env, calls, router, config, stdin, handled, session>>

\* What one step of the generator of request r does to the request.
Streamed(q, n) ==
    [q EXCEPT
        !.gen = "running",
        !.pos = n.pos,
        !.phase = IF n.kind = "yield" THEN "streaming" ELSE "done",
        !.result = IF n.kind = "yield" THEN "stream"
                   ELSE IF n.kind = "stop" THEN "streamed" ELSE "escaped"]

\* The server asks stream_fn for its first element, after generate has
\* returned: run_stream starts, stream_route encodes the file that is at
\* path now, or classifies, and the first element is read. An exception
\* is raised in the server's iteration, outside generate's try.
HttpStreamStart(r) ==
    /\ http[r].phase = "streaming" /\ http[r].gen = "created"
    /\ \E cfail \in BOOLEAN, sfail \in BOOLEAN :
           LET q == http[r]
               path == UploadPath(q.file)
               o == stream_route(FormTextOrEmpty(q.text), path, cfail, sfail)
               routed == [q EXCEPT !.label = o.label,
                                   !.sent = SentCalls(o, assets, path)]
           IN  IF o.status = "raised" THEN
                   http' = [http EXCEPT ![r] =
                               [routed EXCEPT !.gen = "running", !.phase = "done",
                                              !.result = "escaped"]]
               ELSE
                   \E ev \in BackendEvents(0) :
                       http' = [http EXCEPT ![r] =
                                   Streamed(routed, StreamWithTypeNext(0, ev))]
    /\ UNCHANGED <<env, calls, router, config, stdin, assets, handled, session>>

\* The server asks for the next element.
HttpStreamNext(r) ==
    /\ http[r].phase = "streaming" /\ http[r].gen = "running"
    /\ \E ev \in BackendEvents(http[r].pos) :
           http' = [http EXCEPT ![r] =
                       Streamed(http[r], StreamWithTypeNext(http[r].pos, ev))]
    /\ UNCHANGED <<env, calls, router, config, stdin, assets, handled, session>>

NextHttp ==
    \E r \in Requests :
        \/ HttpNoFile(r)
        \/ HttpOpen(r)
        \/ HttpWrite(r)
        \/ HttpStreamStart(r)
        \/ HttpStreamNext(r)

SpecHttp == InitHttp /\ [][NextHttp]_vars

\* What was dispatched for request r is what r alone would have had
\* dispatched: its own text, its own upload's bytes to the vision backend
\* when it has an upload, and the label its own inputs give.
OwnDispatch(r) ==
    LET q == http[r]
    IN  /\ \A i \in 1..Len(q.sent) :
               /\ q.sent[i].text = FormTextOrEmpty(q.text)
               /\ IF q.file = "none" THEN q.sent[i].image = <<>>
                  ELSE /\ q.sent[i].backend = "vision"
                       /\ q.sent[i].image = UploadBytes(r)
        /\ q.label \in
               { "none",
                 IF q.file # "none" THEN "vision"
                 ELSE IF Classify(response) = coding THEN "coding" ELSE "general" }

\* C16: with concurrent POST /generate requests, under every interleaving,
\* the label, the text and the image bytes sent to the backend for a
\* request are those of that request, also when two requests upload
\* different files under one file name.
C16_IndependentDispatch == \A r \in Requests : OwnDispatch(r)

\* C16 for requests that do not upload under the same file name.
C16_OnDistinctFileNames ==
    (http[1].file = "none" \/ http[1].file # http[2].file) =>
        \A r \in Requests : OwnDispatch(r)

\* Request 1 streams with the upload cat.png; request 2 stored its own
\* cat.png before the stream of request 1 started: the vision backend of
\* request 1 was sent the bytes of request 2.
C16_ForeignImageSent ==
    /\ http[1].file = "cat.png" /\ http[2].file = "cat.png"
    /\ http[1].stream /\ http[1].label = "vision"
    /\ http[1].sent # <<>> /\ http[1].sent[1].image = UploadBytes(2)

\* C17: every inference failure of a POST /generate request, with
\* stream=false and with stream=true, those raised while the streamed
\* sequence is consumed included, becomes an {error: string} result: a
\* request ends with {result}, {error} or a stream that ran to its end.
C17_FailuresConverted ==
    \A r \in Requests :
        /\ http[r].result # "escaped"
        /\ http[r].phase = "done" =>
               http[r].result \in {"result", "error", "streamed"}

\* C17 for stream=false: every failure of service.run becomes {error}.
C17_NonStreamingConverted ==
    \A r \in Requests :
        (~http[r].stream /\ http[r].phase = "done") =>
            http[r].result \in {"result", "error"}

\* A request with stream=true whose classification failed at the first
\* pull: nothing was converted.
C17_StreamingFailureEscapes ==
    \E r \in Requests :
        /\ http[r].stream /\ http[r].result = "escaped"
        /\ http[r].pos = 0 /\ http[r].label = "none"
        /\ http[r].file = "none"

\* ------------------------------------------------------------------
\* Router construction on its own, over every configuration mapping that
\* gives some of the three keys a model name.
ModelKeys == {"MODEL_GENERAL", "MODEL_CODING", "MODEL_VISION"}
ModelNames == {"llama3.2:3b", "qwen2.5-coder:3b", "mistral"}
Configs == UNION { [K -> ModelNames] : K \in SUBSET ModelKeys }

InitConstruct ==
    /\ response = <<>>
    /\ classified = NotClassified
    /\ backendKind = "text"
    /\ nfrags = 0
    /\ text = ""
    /\ image_path = NoImage
    /\ InitCalls
    /\ InitOutside
    /\ config \in Configs
    /\ router = NotConstructed

\* ModelRouter(cfg, logger)
Construct ==
    /\ router.status = "new"
    /\ router' = LoadModels(config)
    /\ UNCHANGED <<env, calls, outside>>

NextConstruct == Construct

SpecConstruct == InitConstruct /\ [][NextConstruct]_vars

\* The name the claim gives role key: the configured one, else the default.
ConfiguredOrDefault(key) ==
    IF key \in DOMAIN config THEN config[key]
    ELSE IF key = "MODEL_GENERAL" THEN "llama3.2:3b"
    ELSE IF key = "MODEL_CODING" THEN "qwen2.5-coder:3b"
    ELSE "llava-phi3"

\* The roles are bound as the claim says, the classifier like general.
BoundAsConfigured ==
    /\ router.general = ConfiguredOrDefault("MODEL_GENERAL")
    /\ router.coding = ConfiguredOrDefault("MODEL_CODING")
    /\ router.vision = ConfiguredOrDefault("MODEL_VISION")
    /\ router.router_model = router.general

\* C21: for every configuration mapping, construction succeeds, also when
\* MODEL_GENERAL is absent, and binds general, coding and vision to the
\* configured name when the key is present and to the default name when it
\* is absent, and the classifier to the same name as general.
C21_ConstructionBindsRoles ==
    router.status # "new" =>
        /\ router.status = "constructed"
        /\ BoundAsConfigured

\* What the code does: with MODEL_GENERAL in the mapping the Router is
\* bound as claimed; without it construction raises KeyError after the
\* three roles were bound, the classifier is never bound.
C21_NeedsGeneralKey ==
    router.status # "new" =>
        IF "MODEL_GENERAL" \in DOMAIN config
        THEN router.status = "constructed" /\ BoundAsConfigured
        ELSE /\ router.status = "KeyError"
             /\ router.router_model = Unbound
             /\ router.general = "llama3.2:3b"

\* Only MODEL_CODING is configured: construction failed.
C21_ConstructionFails ==
    /\ DOMAIN config = {"MODEL_CODING"}
    /\ router.status = "KeyError" /\ router.coding = "mistral"

\* ------------------------------------------------------------------
\* services/interactive_session.py when reading the prompt fails: the
\* input has ended, or the user presses Ctrl-C at the prompt.
ReadFailures == {"eof", "interrupt"}

\* What prompt raises on a failed read.
PromptRaises(aborts, cause) ==
    IF aborts THEN "Abort"
    ELSE IF cause = "eof" THEN "EOFError" ELSE "KeyboardInterrupt"

\* `except Exception`: EOFError and Abort (a RuntimeError) derive from
\* Exception, KeyboardInterrupt derives from BaseException only.
IsException(exc) == exc \in {"EOFError", "Abort"}

\* prompt raises. `except Exception` of the loop body prints the error
\* line; what it does not catch reaches `except (EOFError,
\* KeyboardInterrupt)` around the loop, which prints the session-ended
\* message, and run_interactive returns.
PromptFails(cause) ==
    /\ session.mode = "prompt"
    /\ stdin.eof => cause = "eof"
    /\ LET exc == PromptRaises(stdin.aborts, cause)
       IN  /\ stdin' = Terminal(stdin.aborts, cause = "eof", exc)
           /\ session' = [session EXCEPT
                  !.mode = IF IsException(exc) THEN "failed"
                           ELSE "interrupted"]
    /\ UNCHANGED <<env, calls, router, config, assets, http, handled>>

\* The error line is printed: `while True` calls prompt again.
Reprompt ==
    /\ session.mode = "failed"
    /\ session' = [session EXCEPT !.mode = "prompt"]
    /\ stdin' = Terminal(stdin.aborts, stdin.eof, "none")
    /\ UNCHANGED <<env, calls, router, config, assets, http, handled>>

NextSession ==
    \/ NextCli
    \/ \E cause \in ReadFailures : PromptFails(cause)
    \/ Reprompt

SpecSession == InitCli /\ [][NextSession]_vars

\* As FairCli; and a read at the end of the input fails at once.
FairSession ==
    /\ SpecSession
    /\ WF_vars(RunStreamStart(1))
    /\ WF_vars(RunStreamResume(1))
    /\ WF_vars(TurnEnd)
    /\ WF_vars(OneShotEnd)
    /\ WF_vars(stdin.eof /\ PromptFails("eof"))
    /\ WF_vars(Reprompt)

\* C22: if reading the prompt fails with end-of-input or a keyboard
\* interrupt, run_interactive eventually returns, printing the
\* session-ended message, rather than looping on the prompt forever.
C22_PromptFailureEndsSession ==
    (stdin.raised # "none") ~> (session.mode = "interrupted")

\* What the code does: the session-ended message is printed only for a
\* KeyboardInterrupt that prompt lets through; once the input has ended
\* the session is at the prompt or printing the error line of the failed
\* read, and never returns.
C22_EndOfInputNeverReturns ==
    /\ session.mode = "interrupted" =>
           stdin.raised = "KeyboardInterrupt" /\ ~stdin.aborts /\ ~stdin.eof
    /\ stdin.eof => session.mode \in {"prompt", "failed"}
    /\ session.mode = "failed" => stdin.raised \in {"EOFError", "Abort"}

\* The input has ended, the failed read was reported as an error line
\* and the prompt is shown again.
C22_PromptsAgainAtEndOfInput ==
    stdin.eof /\ session.mode = "prompt" /\ ~stdin.aborts

\* Ctrl-C at the prompt of a terminal whose prompt lets it through.
C22_InterruptEndsSession ==
    session.mode = "interrupted" /\ session.prompts = 2

====
